---- MODULE Spec2Model ----
(***************************************************************************)
(* State-machine model of src/client/runtime/steppable-stream.js:         *)
(* SteppableStream (buffer / release / reset over a controlled output      *)
(* stream) and Timeline (entries, cursor, stepping, seeking, deletion).    *)
(*                                                                         *)
(* JavaScript runs every synchronous stretch of code atomically, so each   *)
(* public call is one action and each resumption of the async buffer()     *)
(* loop after `await reader.read()` is one action.                         *)
(***************************************************************************)
EXTENDS Integers, Sequences, FiniteSets, TLC

(* ------------------------------ bounds -------------------------------- *)
\* Bytes of inbound content a stream receives in BufferSpec / StreamSpec.
MaxContent == 4
\* Timeline entries, and rows buffered by all entries' streams together.
MaxEntries == 2
MaxTotalRows == 3
\* The same, where the timeline is driven together with its observers.
MaxObservedRows == 2

(* ------------------------------ text ---------------------------------- *)
\* '\n', the record delimiter of buffer() and the suffix release() appends.
NL == 10
\* A space: whitespace for String.prototype.trim.
SP == 32
\* U+FFFD, what TextDecoder emits for a malformed sequence.
REPLACEMENT == 65533

\* Inbound bytes drawn in the byte-level specifications: 'a', ' ', '\n' and
\* the two bytes C3 A9 of U+00E9, so that a chunk boundary can fall inside a
\* record and inside a character.
Bytes == {97, SP, NL, 195, 169}

Min(a, b) == IF a < b THEN a ELSE b
Max(a, b) == IF a > b THEN a ELSE b

IsLead2(b) == b >= 194 /\ b <= 223
IsCont(b) == b >= 128 /\ b <= 191

\* TextDecoder.decode(value, {stream: true}) on the bytes `pend \o chunk`,
\* where pend is what the previous call held back: complete characters are
\* emitted, a trailing lead byte is held for the next call.
\* Result: [chars, pend].
RECURSIVE decodeStream(_, _)
decodeStream(bs, acc) ==
  IF bs = <<>> THEN [chars |-> acc, pend |-> <<>>]
  ELSE LET b == Head(bs) IN
    IF b < 128 THEN decodeStream(Tail(bs), Append(acc, b))
    ELSE IF IsLead2(b) THEN
      IF Len(bs) = 1 THEN [chars |-> acc, pend |-> <<b>>]
      ELSE IF IsCont(bs[2])
        THEN decodeStream(Tail(Tail(bs)), Append(acc, (b - 192) * 64 + (bs[2] - 128)))
        ELSE decodeStream(Tail(bs), Append(acc, REPLACEMENT))
    ELSE decodeStream(Tail(bs), Append(acc, REPLACEMENT))

\* TextDecoder.decode() with no argument: flushes the held bytes; an
\* incomplete sequence becomes U+FFFD.
decodeFlush(pend) == IF pend = <<>> THEN <<>> ELSE <<REPLACEMENT>>

\* TextEncoder.encode: UTF-8 bytes of a string of code points.
RECURSIVE encode(_)
encode(cs) ==
  IF cs = <<>> THEN <<>>
  ELSE LET c == Head(cs) IN
    (IF c < 128 THEN <<c>>
     ELSE IF c < 2048 THEN <<192 + (c \div 64), 128 + (c % 64)>>
     ELSE <<224 + (c \div 4096), 128 + ((c \div 64) % 64), 128 + (c % 64)>>)
    \o encode(Tail(cs))

\* String.prototype.split('\n'): always at least one piece.
RECURSIVE split(_, _, _)
split(cs, cur, acc) ==
  IF cs = <<>> THEN Append(acc, cur)
  ELSE IF Head(cs) = NL THEN split(Tail(cs), <<>>, Append(acc, cur))
  ELSE split(Tail(cs), Append(cur, Head(cs)), acc)

\* Truthiness of line.trim(): some character is not whitespace.
trimTruthy(line) == \E i \in 1..Len(line) : line[i] # SP /\ line[i] # NL

\* for (const line of lines) if (line.trim()) this.rows.push(line);
RECURSIVE pushLines(_, _)
pushLines(rows, lines) ==
  IF lines = <<>> THEN rows
  ELSE pushLines(IF trimTruthy(Head(lines)) THEN Append(rows, Head(lines)) ELSE rows,
                 Tail(lines))

(* ------------------------- controlled output -------------------------- *)
\* The ReadableStream made by _createStream, seen through its controller:
\* the units enqueued so far, whether close() was called, and whether the
\* controller was used after close (enqueue or close then throw TypeError).
newOutput == [units |-> <<>>, closed |-> FALSE, fault |-> FALSE]

enqueue(out, unit) ==
  IF out.closed THEN [out EXCEPT !.fault = TRUE]
  ELSE [out EXCEPT !.units = Append(@, unit)]

close(out) ==
  IF out.closed THEN [out EXCEPT !.fault = TRUE]
  ELSE [out EXCEPT !.closed = TRUE]

(* --------------------------- SteppableStream -------------------------- *)
\* Faulty variant: the old output stream is kept across a reset.
createStreamKeepsOutput(st) == [st EXCEPT !.releasedCount = 0, !.closed = FALSE]

\* _createStream(): releasedCount = 0, closed = false, a fresh output.
createStream(st) ==
  [st EXCEPT !.releasedCount = 0, !.closed = FALSE, !.output = newOutput]

\* constructor(source): bufferPromise is the pending promise of buffer(source)
\* when a source is given, and an already resolved promise otherwise.
\* partial and pend are the locals of the buffer() call (the text not yet
\* split and the bytes its TextDecoder holds).
newStream(hasSource) ==
  createStream([rows |-> <<>>, releasedCount |-> 0, buffered |-> FALSE,
                closed |-> FALSE, output |-> newOutput,
                bufferPromise |-> IF hasSource THEN "pending" ELSE "fulfilled",
                partial |-> <<>>, pend |-> <<>>])

\* Faulty variant: the loop enqueues rows[0] on every pass.
RECURSIVE releaseLoopFirstRow(_, _)
releaseLoopFirstRow(st, count) ==
  IF st.releasedCount < count /\ st.releasedCount < Len(st.rows)
  THEN releaseLoopFirstRow(
         [st EXCEPT !.output = enqueue(@, encode(Append(st.rows[1], NL))),
                    !.releasedCount = @ + 1],
         count)
  ELSE st

\* The while loop of release(count).
RECURSIVE releaseLoop(_, _)
releaseLoop(st, count) ==
  IF st.releasedCount < count /\ st.releasedCount < Len(st.rows)
  THEN releaseLoop(
         [st EXCEPT !.output = enqueue(@, encode(Append(st.rows[st.releasedCount + 1], NL))),
                    !.releasedCount = @ + 1],
         count)
  ELSE st

\* Faulty variant: the loop ignores count and releases every buffered row.
RECURSIVE releaseEverything(_, _)
releaseEverything(st, count) ==
  IF st.releasedCount < Len(st.rows)
  THEN releaseEverything(
         [st EXCEPT !.output = enqueue(@, encode(Append(st.rows[st.releasedCount + 1], NL))),
                    !.releasedCount = @ + 1],
         count)
  ELSE IF st.buffered /\ ~st.closed
  THEN [st EXCEPT !.output = close(@), !.closed = TRUE]
  ELSE st

\* Faulty variant: the close does not look at this.closed.
releaseClosesAgain(st, count) ==
  LET s1 == releaseLoop(st, count) IN
  IF s1.releasedCount >= Len(s1.rows) /\ s1.buffered
  THEN [s1 EXCEPT !.output = close(@), !.closed = TRUE]
  ELSE s1

release(st, count) ==
  LET s1 == releaseLoop(st, count) IN
  IF s1.releasedCount >= Len(s1.rows) /\ s1.buffered /\ ~s1.closed
  THEN [s1 EXCEPT !.output = close(@), !.closed = TRUE]
  ELSE s1

reset(st) == createStream(st)

\* The buffer() loop is waiting in `await reader.read()`.
reading(st) == st.bufferPromise = "pending" /\ ~st.buffered

\* Faulty variant: the text after the last newline is dropped instead of
\* being carried into the next pass.
bufferChunkDropsPartial(st, chunk) ==
  LET d == decodeStream(st.pend \o chunk, <<>>)
      lines == split(d.chars, <<>>, <<>>)
  IN [st EXCEPT !.pend = d.pend,
                !.partial = lines[Len(lines)],
                !.rows = pushLines(@, SubSeq(lines, 1, Len(lines) - 1))]

\* reader.read() resolved {done: false, value: chunk}: one pass of the loop.
bufferChunk(st, chunk) ==
  LET d == decodeStream(st.pend \o chunk, <<>>)
      lines == split(st.partial \o d.chars, <<>>, <<>>)
  IN [st EXCEPT !.pend = d.pend,
                !.partial = lines[Len(lines)],
                !.rows = pushLines(@, SubSeq(lines, 1, Len(lines) - 1))]

\* Faulty variant: completing the buffer starts the rows over with the
\* flushed tail.
bufferDoneRestartsRows(st) ==
  LET rest == st.partial \o decodeFlush(st.pend) IN
  [st EXCEPT !.pend = <<>>,
             !.partial = rest,
             !.rows = IF trimTruthy(rest) THEN <<rest>> ELSE @,
             !.buffered = TRUE,
             !.bufferPromise = "fulfilled"]

\* reader.read() resolved {done: true}: flush, finally, promise fulfilled.
bufferDone(st) ==
  LET rest == st.partial \o decodeFlush(st.pend) IN
  [st EXCEPT !.pend = <<>>,
             !.partial = rest,
             !.rows = IF trimTruthy(rest) THEN Append(@, rest) ELSE @,
             !.buffered = TRUE,
             !.bufferPromise = "fulfilled"]

\* Faulty variant: a catch clause swallows the read error.
bufferErrorSwallowed(st) ==
  [st EXCEPT !.buffered = TRUE, !.bufferPromise = "fulfilled"]

\* reader.read() rejected: the exception leaves the try block, the finally
\* clause runs, and the promise of buffer() is rejected with the error.
bufferError(st) ==
  [st EXCEPT !.buffered = TRUE, !.bufferPromise = "rejected"]

(* ------------------------------ Timeline ------------------------------ *)
\* A timeline value tl is [entries, array, cursor, listeners, snapshot,
\* lastObject, notified, heard, loops, diverges]; notified counts the
\* notify() calls made by the operation in progress and heard lists them,
\* loops counts the passes through its while loops, and diverges says that
\* it entered a loop that never ends.
\* entries is the content of the array this.entries refers to and array
\* tells that array from others: an assignment to this.entries installs a
\* new array, a release or reset changes stream objects inside the same one.
\* snapshot is <<>> for null or <<object>>; an object is
\* [id, entries, cursor, totalChunks, isAtStart, isAtEnd], where entries is
\* the array the object refers to.
\* Objects are told apart by id; lastObject is the id of the latest object
\* created, and the next one gets the other id of {0, 1}, so the objects of
\* two successive creations never share an id.
\* An entry is [type, name, stream]; render entries carry name "".

\* The null of getPosition.
NoPosition == [entryIndex |-> -1, localChunk |-> -1]

\* this.entries = es, es a newly built array.  The new array differs from
\* the one a cached snapshot object refers to (an array no object refers to
\* any more leaves its id free).
assign(tl, es) ==
  [tl EXCEPT !.entries = es,
             !.array = IF tl.snapshot = <<>> THEN 0 ELSE 1 - tl.snapshot[1].entries]

getChunkCount(entry) == Len(entry.stream.rows)

RECURSIVE sumChunks(_, _)
sumChunks(es, i) ==
  IF i > Len(es) THEN 0 ELSE getChunkCount(es[i]) + sumChunks(es, i + 1)

getTotalChunks(es) == sumChunks(es, 1)

\* The fields getSnapshot() computes from the timeline as it is now.
snapshotFields(tl) ==
  LET totalChunks == getTotalChunks(tl.entries) IN
  [cursor |-> tl.cursor,
   totalChunks |-> totalChunks,
   isAtStart |-> tl.cursor = 0,
   isAtEnd |-> tl.cursor >= totalChunks]

\* Faulty variant: a new object is built on every call.
getSnapshotUncached(tl) ==
  LET f == snapshotFields(tl)
      object == [id |-> 1 - tl.lastObject, entries |-> tl.array,
                 cursor |-> f.cursor,
                 totalChunks |-> f.totalChunks, isAtStart |-> f.isAtStart,
                 isAtEnd |-> f.isAtEnd]
  IN [tl |-> [tl EXCEPT !.snapshot = <<object>>, !.lastObject = object.id],
      ret |-> object]

\* Result: [tl, ret].
getSnapshot(tl) ==
  IF tl.snapshot # <<>> THEN [tl |-> tl, ret |-> tl.snapshot[1]]
  ELSE LET f == snapshotFields(tl)
           object == [id |-> 1 - tl.lastObject, entries |-> tl.array,
                      cursor |-> f.cursor,
                      totalChunks |-> f.totalChunks, isAtStart |-> f.isAtStart,
                      isAtEnd |-> f.isAtEnd]
       IN [tl |-> [tl EXCEPT !.snapshot = <<object>>, !.lastObject = object.id],
           ret |-> object]

\* Faulty variant: the returned function clears the whole set.
unsubscribeAll(tl, listener) == [tl EXCEPT !.listeners = {}]

subscribe(tl, listener) == [tl EXCEPT !.listeners = @ \cup {listener}]

\* The function subscribe returned for listener, called.
unsubscribe(tl, listener) == [tl EXCEPT !.listeners = @ \ {listener}]

\* One notify(): the cache is dropped and every listener is called.  heard
\* gets one record per call of notify(): the listeners called and what the
\* timeline holds at that moment, which is what getSnapshot() gives a
\* listener that calls it (the cache has just been dropped).
notify(tl) ==
  [tl EXCEPT !.snapshot = <<>>,
             !.notified = @ + 1,
             !.heard = IF tl.listeners = {} THEN @
                       ELSE Append(@, [fns |-> tl.listeners,
                                       entries |-> tl.entries,
                                       sees |-> snapshotFields(tl)])]

\* Faulty variant: the loop stops before the last entry.
RECURSIVE positionLoopSkipsLast(_, _, _)
positionLoopSkipsLast(es, i, remaining) ==
  IF i >= Len(es) - 1 THEN NoPosition
  ELSE LET count == getChunkCount(es[i + 1]) IN
    IF remaining < count THEN [entryIndex |-> i, localChunk |-> remaining]
    ELSE positionLoopSkipsLast(es, i + 1, remaining - count)

\* The for loop of getPosition; i is the 0-based index of the code.
RECURSIVE positionLoop(_, _, _)
positionLoop(es, i, remaining) ==
  IF i >= Len(es) THEN NoPosition
  ELSE LET count == getChunkCount(es[i + 1]) IN
    IF remaining < count THEN [entryIndex |-> i, localChunk |-> remaining]
    ELSE positionLoop(es, i + 1, remaining - count)

getPosition(es, globalChunk) == positionLoop(es, 0, globalChunk)

RECURSIVE getEntryStart(_, _)
getEntryStart(es, entryIndex) ==
  IF entryIndex <= 0 THEN 0
  ELSE getEntryStart(es, entryIndex - 1) + getChunkCount(es[entryIndex])

\* Faulty variant: only the index range is checked.
canDeleteEntryInRange(tl, entryIndex) ==
  ~(entryIndex < 0 \/ entryIndex >= Len(tl.entries))

\* Faulty variant: < where the code has <=.
canDeleteEntryStrict(tl, entryIndex) ==
  IF entryIndex < 0 \/ entryIndex >= Len(tl.entries) THEN FALSE
  ELSE tl.cursor < getEntryStart(tl.entries, entryIndex)

canDeleteEntry(tl, entryIndex) ==
  IF entryIndex < 0 \/ entryIndex >= Len(tl.entries) THEN FALSE
  ELSE tl.cursor <= getEntryStart(tl.entries, entryIndex)

\* Faulty variant: the cursor is left where it was.
setRenderKeepsCursor(tl, stream) ==
  notify(assign(tl, <<[type |-> "render", name |-> "", stream |-> stream]>>))

setRender(tl, stream) ==
  notify([assign(tl, <<[type |-> "render", name |-> "", stream |-> stream]>>)
            EXCEPT !.cursor = 0])

\* Faulty variant: the new entry is put in front.
addActionAtHead(tl, name, stream) ==
  notify(assign(tl, <<[type |-> "action", name |-> name, stream |-> stream]>>
                      \o tl.entries))

addAction(tl, name, stream) ==
  notify(assign(tl, Append(tl.entries,
                           [type |-> "action", name |-> name, stream |-> stream])))

\* Faulty variant: slice(0, entryIndex) where the code filters one index out.
removeFrom(es, entryIndex) == SubSeq(es, 1, entryIndex)

\* this.entries.filter((_, i) => i !== entryIndex)
removeAt(es, entryIndex) ==
  [i \in 1..(Len(es) - 1) |-> IF i <= entryIndex THEN es[i] ELSE es[i + 1]]

\* Result: [tl, ret].
deleteEntry(tl, entryIndex) ==
  IF ~canDeleteEntry(tl, entryIndex) THEN [tl |-> tl, ret |-> FALSE]
  ELSE [tl |-> notify(assign(tl, removeAt(tl.entries, entryIndex))), ret |-> TRUE]

\* _releaseNext(). Result: [tl, ret].
releaseNext(tl) ==
  LET pos == getPosition(tl.entries, tl.cursor) IN
  IF pos = NoPosition THEN [tl |-> tl, ret |-> FALSE]
  ELSE [tl |-> [tl EXCEPT !.cursor = @ + 1,
                          !.entries[pos.entryIndex + 1].stream =
                             release(@, pos.localChunk + 1)],
        ret |-> TRUE]

\* Faulty variant: the step does not notify.
stepForwardSilent(tl) ==
  LET total == getTotalChunks(tl.entries) IN
  IF tl.cursor >= total THEN tl
  ELSE releaseNext(tl).tl

stepForward(tl) ==
  LET total == getTotalChunks(tl.entries) IN
  IF tl.cursor >= total THEN tl
  ELSE notify(releaseNext(tl).tl)

\* Faulty variant: the loop stops one row short of the target.
RECURSIVE releaseUntilStopsShort(_, _)
releaseUntilStopsShort(tl, clampedTarget) ==
  IF tl.cursor + 1 < clampedTarget
  THEN LET r == releaseNext([tl EXCEPT !.loops = @ + 1]) IN
       IF r.ret THEN releaseUntilStopsShort(r.tl, clampedTarget) ELSE r.tl
  ELSE tl

\* while (this.cursor < clampedTarget) { if (!this._releaseNext()) break; }
RECURSIVE releaseUntil(_, _)
releaseUntil(tl, clampedTarget) ==
  IF tl.cursor < clampedTarget
  THEN LET r == releaseNext([tl EXCEPT !.loops = @ + 1]) IN
       IF r.ret THEN releaseUntil(r.tl, clampedTarget) ELSE r.tl
  ELSE tl

\* Faulty variant: an entry that starts exactly at the target is dropped too.
RECURSIVE keepLoopDropsAtTarget(_, _, _, _, _)
keepLoopDropsAtTarget(es, i, entriesToKeep, entryStart, clampedTarget) ==
  IF i >= Len(es) THEN entriesToKeep
  ELSE IF entryStart >= clampedTarget /\ i > 0 THEN entriesToKeep
  ELSE keepLoopDropsAtTarget(es, i + 1, entriesToKeep + 1,
                             entryStart + getChunkCount(es[i + 1]), clampedTarget)

\* The entriesToKeep loop of the backward branch of seekTo; i is 0-based.
RECURSIVE keepLoop(_, _, _, _, _)
keepLoop(es, i, entriesToKeep, entryStart, clampedTarget) ==
  IF i >= Len(es) THEN entriesToKeep
  ELSE IF entryStart > clampedTarget THEN entriesToKeep
  ELSE keepLoop(es, i + 1, entriesToKeep + 1,
                entryStart + getChunkCount(es[i + 1]), clampedTarget)

\* Faulty variant: the kept streams are not reset.
resetNone(es) == es

resetAll(es) == [i \in 1..Len(es) |-> [es[i] EXCEPT !.stream = reset(@)]]

\* Faulty variant: the target is not clamped to totalChunks.
seekToUnclamped(tl, targetCursor) ==
  LET clampedTarget == Max(0, targetCursor) IN
  IF clampedTarget = tl.cursor THEN tl
  ELSE IF clampedTarget > tl.cursor THEN notify(releaseUntil(tl, clampedTarget))
  ELSE LET entriesToKeep == keepLoop(tl.entries, 0, 0, 0, clampedTarget)
           kept == resetAll(SubSeq(tl.entries, 1, entriesToKeep))
       IN notify(releaseUntil([assign(tl, kept) EXCEPT !.cursor = 0], clampedTarget))

\* Faulty variant: a backward seek un-releases but removes no entry.
seekToKeepsEntries(tl, targetCursor) ==
  LET total == getTotalChunks(tl.entries)
      clampedTarget == Max(0, Min(targetCursor, total))
  IN
  IF clampedTarget = tl.cursor THEN tl
  ELSE IF clampedTarget > tl.cursor THEN notify(releaseUntil(tl, clampedTarget))
  ELSE notify(releaseUntil([tl EXCEPT !.entries = resetAll(@), !.cursor = 0],
                           clampedTarget))

\* Faulty variant: a backward seek notifies before it replays.
seekToNotifiesEarly(tl, targetCursor) ==
  LET total == getTotalChunks(tl.entries)
      clampedTarget == Max(0, Min(targetCursor, total))
  IN
  IF clampedTarget = tl.cursor THEN tl
  ELSE IF clampedTarget > tl.cursor THEN notify(releaseUntil(tl, clampedTarget))
  ELSE LET entriesToKeep == keepLoop(tl.entries, 0, 0, 0, clampedTarget)
           kept == resetAll(SubSeq(tl.entries, 1, entriesToKeep))
       IN releaseUntil(notify([assign(tl, kept) EXCEPT !.cursor = 0]),
                       clampedTarget)

seekTo(tl, targetCursor) ==
  LET total == getTotalChunks(tl.entries)
      clampedTarget == Max(0, Min(targetCursor, total))
  IN
  IF clampedTarget = tl.cursor THEN tl
  ELSE IF clampedTarget > tl.cursor THEN notify(releaseUntil(tl, clampedTarget))
  ELSE LET entriesToKeep == keepLoop(tl.entries, 0, 0, 0, clampedTarget)
           kept == resetAll(SubSeq(tl.entries, 1, entriesToKeep))
       IN notify(releaseUntil([assign(tl, kept) EXCEPT !.cursor = 0], clampedTarget))

\* Faulty variant: the target is the cursor itself.
stepBackwardStays(tl) ==
  IF tl.cursor <= 0 THEN tl ELSE seekTo(tl, tl.cursor)

stepBackward(tl) ==
  IF tl.cursor <= 0 THEN tl ELSE seekTo(tl, tl.cursor - 1)

\* Faulty variant: the loop runs to the end of the timeline.
RECURSIVE skipLoopToTotal(_, _)
skipLoopToTotal(tl, entryEnd) ==
  IF tl.cursor < getTotalChunks(tl.entries)
  THEN skipLoopToTotal(stepForward([tl EXCEPT !.loops = @ + 1]), entryEnd)
  ELSE tl

\* while (this.cursor < entryEnd) this.stepForward();
\* A pass in which stepForward() returns at its guard changes nothing, so
\* the condition stays true and the loop never ends.
RECURSIVE skipLoop(_, _)
skipLoop(tl, entryEnd) ==
  IF tl.cursor < entryEnd
  THEN IF stepForward(tl) = tl THEN [tl EXCEPT !.diverges = TRUE]
       ELSE skipLoop(stepForward([tl EXCEPT !.loops = @ + 1]), entryEnd)
  ELSE tl

\* Faulty variant: the end is taken one past the entry's last row.
skipToEntryEndPastEnd(tl) ==
  LET pos == getPosition(tl.entries, tl.cursor) IN
  IF pos = NoPosition THEN tl
  ELSE skipLoop(tl, getEntryStart(tl.entries, pos.entryIndex)
                     + getChunkCount(tl.entries[pos.entryIndex + 1]) + 1)

skipToEntryEnd(tl) ==
  LET pos == getPosition(tl.entries, tl.cursor) IN
  IF pos = NoPosition THEN tl
  ELSE skipLoop(tl, getEntryStart(tl.entries, pos.entryIndex)
                     + getChunkCount(tl.entries[pos.entryIndex + 1]))

clear(tl) == notify([assign(tl, <<>>) EXCEPT !.cursor = 0])

(* ------------------------------- state -------------------------------- *)
VARIABLES
  entries,   \* Timeline.entries: the content of the array
  array,     \* Timeline.entries: which array it is
  cursor,    \* Timeline.cursor
  listeners, \* Timeline.listeners
  snapshot,  \* Timeline.snapshot
  lastObject,\* id of the latest snapshot object created
  notified,  \* notify() calls made by the latest step
  heard,     \* the listener calls made by the latest step
  call,      \* the latest step: [op, arg, ret]
  mode,      \* "free", or "stepping" during a run of stepForward calls
  stream,    \* a SteppableStream driven directly (StreamSpec, BufferSpec)
  source,    \* its inbound stream: [state, received, cut]
  workspace  \* the Workspace component: its state and its effect's runs

vars == <<entries, array, cursor, listeners, snapshot, lastObject, notified, heard,
          call, mode, stream, source, workspace>>

timeline ==
  [entries |-> entries, array |-> array, cursor |-> cursor, listeners |-> listeners,
   snapshot |-> snapshot, lastObject |-> lastObject,
   notified |-> 0, heard |-> <<>>, loops |-> 0, diverges |-> FALSE]

Call(op, arg, ret) == [op |-> op, arg |-> arg, ret |-> ret]

\* useState(initialServerCode), useState(initialClientCode), useState(0),
\* useState(null); no run of the effect yet. Session 0 is null, session i
\* the one the i-th run's create() resolved with.
newWorkspace ==
  [serverCode |-> 0, clientCode |-> 0, resetKey |-> 0, session |-> 0, runs |-> <<>>]

\* Chunks read by the streams of timeline entries: one complete row each.
RowChunks == {<<97, NL>>}

\* Non-empty byte sequences of length at most n.
RECURSIVE ChunksUpTo(_)
ChunksUpTo(n) ==
  IF n = 0 THEN {}
  ELSE LET shorter == ChunksUpTo(n - 1) IN
       {<<b>> : b \in Bytes} \cup shorter \cup
       {Append(c, b) : c \in shorter, b \in Bytes}

\* Single bytes, for the stream driven together with release and reset.
ByteChunks == {<<97>>, <<98>>, <<NL>>}

idleSource == [state |-> "none", received |-> <<>>, cut |-> FALSE]

TimelineInit ==
  /\ entries = <<>>
  /\ array = 0
  /\ cursor = 0
  /\ listeners = {}
  /\ snapshot = <<>>
  /\ lastObject = 0
  /\ notified = 0
  /\ heard = <<>>
  /\ call = Call("new", 0, TRUE)
  /\ mode = "free"

Init ==
  /\ TimelineInit
  /\ stream = newStream(FALSE)
  /\ source = idleSource
  /\ workspace = newWorkspace

(* -------------------------- Timeline actions -------------------------- *)
Install(tl, c) ==
  /\ entries' = tl.entries
  /\ array' = tl.array
  /\ cursor' = tl.cursor
  /\ listeners' = tl.listeners
  /\ snapshot' = tl.snapshot
  /\ lastObject' = tl.lastObject
  /\ notified' = tl.notified
  /\ heard' = tl.heard
  /\ call' = c
  /\ UNCHANGED <<mode, stream, source, workspace>>

SetRender ==
  Install(setRender(timeline, newStream(TRUE)), Call("setRender", 0, TRUE))

AddAction ==
  /\ Len(entries) < MaxEntries
  /\ Install(addAction(timeline, "act", newStream(TRUE)), Call("addAction", 0, TRUE))

DeleteEntry ==
  \E entryIndex \in -1..Len(entries) :
    LET r == deleteEntry(timeline, entryIndex) IN
    Install(r.tl, Call("deleteEntry", entryIndex, r.ret))

StepForward == Install(stepForward(timeline), Call("stepForward", 0, TRUE))

StepBackward == Install(stepBackward(timeline), Call("stepBackward", 0, TRUE))

SeekTo ==
  \E targetCursor \in -1..(getTotalChunks(entries) + 1) :
    Install(seekTo(timeline, targetCursor), Call("seekTo", targetCursor, TRUE))

SkipToEntryEnd == Install(skipToEntryEnd(timeline), Call("skipToEntryEnd", 0, TRUE))

Clear == Install(clear(timeline), Call("clear", 0, TRUE))

\* Background buffering of entry i's stream (i is 1-based here).
Background(i, st) ==
  Install([timeline EXCEPT !.entries[i].stream = st], Call("buffer", i - 1, TRUE))

EntryChunkUpTo(limit) ==
  \E i \in 1..Len(entries) : \E chunk \in RowChunks :
    /\ reading(entries[i].stream)
    /\ getTotalChunks(entries) < limit
    /\ Background(i, bufferChunk(entries[i].stream, chunk))

EntryChunk == EntryChunkUpTo(MaxTotalRows)

EntryDone ==
  \E i \in 1..Len(entries) :
    /\ reading(entries[i].stream)
    /\ Background(i, bufferDone(entries[i].stream))

Next ==
  \/ SetRender
  \/ AddAction
  \/ DeleteEntry
  \/ StepForward
  \/ StepBackward
  \/ SeekTo
  \/ SkipToEntryEnd
  \/ Clear
  \/ EntryChunk
  \/ EntryDone

Spec == Init /\ [][Next]_vars

(* ---------------- a run of stepForward calls from cursor 0 ------------ *)
allBuffered == \A i \in 1..Len(entries) : entries[i].stream.buffered

\* The caller starts stepping through a timeline whose streams have all
\* finished buffering; from then on it only calls stepForward.
BeginStepping ==
  /\ mode = "free"
  /\ cursor = 0
  /\ allBuffered
  /\ mode' = "stepping"
  /\ UNCHANGED <<entries, array, cursor, listeners, snapshot, lastObject,
                 notified, heard, call, stream, source, workspace>>

StepAllNext ==
  \/ (mode = "free" /\ Next)
  \/ BeginStepping
  \/ (mode = "stepping" /\ StepForward)

StepAllSpec == Init /\ [][StepAllNext]_vars

(* ------------- stepForward calls while rows still arrive -------------- *)
\* The caller starts stepping at cursor 0 without waiting for the streams;
\* from then on it only calls stepForward, and rows keep arriving.
BeginLive ==
  /\ mode = "free"
  /\ cursor = 0
  /\ mode' = "live"
  /\ UNCHANGED <<entries, array, cursor, listeners, snapshot, lastObject,
                 notified, heard, call, stream, source, workspace>>

LiveNext ==
  \/ (mode = "free" /\ Next)
  \/ BeginLive
  \/ (mode = "live" /\ (StepForward \/ EntryChunk \/ EntryDone))

LiveSpec == Init /\ [][LiveNext]_vars

(* ------------------- the timeline and its observers ------------------- *)
\* The functions passed to subscribe.
Listeners == {"f", "g"}

Subscribe ==
  \E listener \in Listeners :
    Install(subscribe(timeline, listener), Call("subscribe", listener, TRUE))

\* Only a function subscribe returned can be called; called again after its
\* listener is gone it deletes nothing.
Unsubscribe ==
  \E listener \in listeners :
    Install(unsubscribe(timeline, listener), Call("unsubscribe", listener, TRUE))

GetSnapshot ==
  LET r == getSnapshot(timeline) IN
  Install(r.tl, Call("getSnapshot", 0, r.ret))

ObservedChunk == EntryChunkUpTo(MaxObservedRows)

\* Next, with fewer rows.
ObservedNext ==
  \/ SetRender
  \/ AddAction
  \/ DeleteEntry
  \/ StepForward
  \/ StepBackward
  \/ SeekTo
  \/ SkipToEntryEnd
  \/ Clear
  \/ ObservedChunk
  \/ EntryDone

ListenerNext == ObservedNext \/ Subscribe \/ Unsubscribe

ListenerSpec == Init /\ [][ListenerNext]_vars

SnapshotNext == ObservedNext \/ GetSnapshot

SnapshotSpec == Init /\ [][SnapshotNext]_vars

(* --------------------- one stream, driven directly -------------------- *)
timelineVars ==
  <<entries, array, cursor, listeners, snapshot, lastObject, notified, heard, mode,
    workspace>>

StreamInit ==
  /\ TimelineInit
  /\ \E hasSource \in BOOLEAN :
       /\ stream = newStream(hasSource)
       /\ source = [idleSource EXCEPT !.state = IF hasSource THEN "open" ELSE "none"]
  /\ workspace = newWorkspace

\* The inbound stream delivers a chunk and the pending read resolves with it.
\* cut records that an earlier chunk ended inside a record or a character.
Deliver(chunks) ==
  \E chunk \in chunks :
    /\ source.state = "open"
    /\ reading(stream)
    /\ Len(source.received) + Len(chunk) <= MaxContent
    /\ stream' = bufferChunk(stream, chunk)
    /\ source' = [source EXCEPT !.received = @ \o chunk,
                                !.cut = @ \/ stream.partial # <<>> \/ stream.pend # <<>>]
    /\ call' = Call("read", Len(chunk), TRUE)
    /\ UNCHANGED timelineVars

SourceClose ==
  /\ source.state = "open"
  /\ source' = [source EXCEPT !.state = "closed"]
  /\ call' = Call("sourceClose", 0, TRUE)
  /\ UNCHANGED <<stream, timelineVars>>

SourceError ==
  /\ source.state = "open"
  /\ source' = [source EXCEPT !.state = "errored"]
  /\ call' = Call("sourceError", 0, TRUE)
  /\ UNCHANGED <<stream, timelineVars>>

ReadDone ==
  /\ source.state = "closed"
  /\ reading(stream)
  /\ stream' = bufferDone(stream)
  /\ call' = Call("readDone", 0, TRUE)
  /\ UNCHANGED <<source, timelineVars>>

ReadError ==
  /\ source.state = "errored"
  /\ reading(stream)
  /\ stream' = bufferError(stream)
  /\ call' = Call("readError", 0, TRUE)
  /\ UNCHANGED <<source, timelineVars>>

Release ==
  \E count \in -1..(Len(stream.rows) + 1) :
    /\ stream' = release(stream, count)
    /\ call' = Call("release", count, TRUE)
    /\ UNCHANGED <<source, timelineVars>>

Reset ==
  /\ stream' = reset(stream)
  /\ call' = Call("reset", 0, TRUE)
  /\ UNCHANGED <<source, timelineVars>>

StreamNext ==
  \/ Deliver(ByteChunks)
  \/ SourceClose
  \/ SourceError
  \/ ReadDone
  \/ ReadError
  \/ Release
  \/ Reset

StreamSpec == StreamInit /\ [][StreamNext]_vars

\* buffer() alone, on every byte content and every way of chunking it.  A
\* settled read promise resumes buffer() in a microtask, hence the fairness.
BufferNext ==
  \/ Deliver(ChunksUpTo(MaxContent - Len(source.received)))
  \/ SourceClose
  \/ SourceError
  \/ ReadDone
  \/ ReadError

BufferSpec ==
  /\ StreamInit
  /\ [][BufferNext]_vars
  /\ WF_vars(ReadDone)
  /\ WF_vars(ReadError)

(* ============================== claims ================================ *)
rc(i) == entries[i].stream.releasedCount
rowCount(i) == Len(entries[i].stream.rows)

IsPrefix(a, b) == Len(a) <= Len(b) /\ SubSeq(b, 1, Len(a)) = a

(* ------------------------------ Workspace ------------------------------ *)
\* Runs of the effect a behaviour may have.
MaxRuns == 3

\* Values of the server and the client code.
Codes == 0..1

\* The effect's dependency list: [serverCode, clientCode, resetKey].
deps(w) == <<w.serverCode, w.clientCode, w.resetKey>>

\* The effect is due after the first render and after a render whose
\* dependencies differ from those of its latest run.
effectDue(ws) ==
  IF ws.runs = <<>> THEN TRUE
  ELSE deps(ws.runs[Len(ws.runs)]) # deps(ws)

\* return () => abort.abort(): of the latest run.
cleanup(ws) ==
  IF ws.runs = <<>> THEN ws
  ELSE [ws EXCEPT !.runs[Len(ws.runs)].aborted = TRUE]

\* const abort = new AbortController();
\* WorkspaceSession.create(serverCode, clientCode, abort.signal).then(...)
effect(ws) ==
  [ws EXCEPT !.runs = Append(@, [serverCode |-> ws.serverCode,
                                 clientCode |-> ws.clientCode,
                                 resetKey |-> ws.resetKey,
                                 aborted |-> FALSE,
                                 promise |-> "pending"])]

\* (nextSession) => { if (!abort.signal.aborted) setSession(nextSession) }
\* of run i.
onCreated(ws, i) ==
  IF ~ws.runs[i].aborted THEN [ws EXCEPT !.session = i] ELSE ws

handleServerChange(ws, code) == [ws EXCEPT !.serverCode = code]

handleClientChange(ws, code) == [ws EXCEPT !.clientCode = code]

\* reset(): setResetKey((k) => k + 1)
onReset(ws) == [ws EXCEPT !.resetKey = @ + 1]

WorkspaceStep(ws, c) ==
  /\ workspace' = ws
  /\ call' = c
  /\ UNCHANGED <<entries, array, cursor, listeners, snapshot, lastObject,
                 notified, heard, mode, stream, source>>

\* An editor reports a changed document; the component renders with it.
\* React runs an effect that is due before it renders again.
HandleServerChange ==
  \E code \in Codes :
    /\ ~effectDue(workspace)
    /\ Len(workspace.runs) < MaxRuns
    /\ code # workspace.serverCode
    /\ WorkspaceStep(handleServerChange(workspace, code),
                     Call("handleServerChange", code, TRUE))

HandleClientChange ==
  \E code \in Codes :
    /\ ~effectDue(workspace)
    /\ Len(workspace.runs) < MaxRuns
    /\ code # workspace.clientCode
    /\ WorkspaceStep(handleClientChange(workspace, code),
                     Call("handleClientChange", code, TRUE))

\* onReset is passed to WorkspaceContent, rendered when there is a session.
OnReset ==
  /\ ~effectDue(workspace)
  /\ Len(workspace.runs) < MaxRuns
  /\ workspace.session # 0
  /\ WorkspaceStep(onReset(workspace), Call("reset", 0, TRUE))

\* React runs the effect's callbacks some time after the render: the cleanup
\* of the previous run, then the effect.
RunEffect ==
  /\ effectDue(workspace)
  /\ WorkspaceStep(effect(cleanup(workspace)),
                   Call("effect", Len(workspace.runs) + 1, TRUE))

\* The promise of run i's create() is fulfilled and its then-callback runs.
\* ret says whether the callback has set the session.
CreateResolves ==
  \E i \in 1..Len(workspace.runs) :
    /\ workspace.runs[i].promise = "pending"
    /\ WorkspaceStep(onCreated([workspace EXCEPT !.runs[i].promise = "fulfilled"], i),
                     Call("created", i, ~workspace.runs[i].aborted))

\* The promise of run i's create() is rejected: no callback is attached.
CreateRejects ==
  \E i \in 1..Len(workspace.runs) :
    /\ workspace.runs[i].promise = "pending"
    /\ WorkspaceStep([workspace EXCEPT !.runs[i].promise = "rejected"],
                     Call("rejected", i, FALSE))

WorkspaceNext ==
  \/ HandleServerChange
  \/ HandleClientChange
  \/ OnReset
  \/ RunEffect
  \/ CreateResolves
  \/ CreateRejects

WorkspaceSpec == Init /\ [][WorkspaceNext]_vars

\* C1: every entry's releasedCount equals the number of its rows whose global
\* position is below the cursor.  Stated as claimed; the code breaks it when
\* a row arrives in an entry the cursor has already left.
ReleasedMatchesCursor ==
  \A i \in 1..Len(entries) :
    rc(i) = Max(0, Min(rowCount(i), cursor - getEntryStart(entries, i - 1)))

\* C2: the cursor always lies in [0, totalChunks].
CursorInRange == 0 <= cursor /\ cursor <= getTotalChunks(entries)

\* C2 witness: a successful deleteEntry with the cursor on the last row left.
CursorInRangeWitness ==
  /\ call.op = "deleteEntry"
  /\ call.ret
  /\ cursor > 0
  /\ cursor = getTotalChunks(entries)

\* C3: the units enqueued into the current output stream are exactly the
\* encoded rows[0..releasedCount), in order, each once, and the controller
\* was never used after close.
OutputIsReleasedPrefix ==
  /\ Len(stream.output.units) = stream.releasedCount
  /\ stream.releasedCount <= Len(stream.rows)
  /\ \A i \in 1..Len(stream.output.units) :
       stream.output.units[i] = encode(stream.rows[i] \o <<NL>>)
  /\ ~stream.output.fault

\* C3 witness: two different rows released while the inbound stream is still
\* being buffered.
OutputIsReleasedPrefixWitness ==
  /\ call.op = "release"
  /\ stream.releasedCount = 2
  /\ stream.rows[1] # stream.rows[2]
  /\ ~stream.buffered

\* C4: the output stream is closed iff buffered and everything is released.
\* Stated as claimed; the code closes the output only inside release().
ClosedIffDrained ==
  stream.output.closed <=>
    (stream.buffered /\ stream.releasedCount = Len(stream.rows))

\* C5: release(count) leaves releasedCount = max(old, min(count, rows.length)),
\* and 0 <= releasedCount <= rows.length always.
ReleaseIsClampedMax ==
  /\ [](0 <= stream.releasedCount /\ stream.releasedCount <= Len(stream.rows))
  /\ [][call'.op = "release" =>
          stream'.releasedCount =
            Max(stream.releasedCount, Min(call'.arg, Len(stream.rows)))]_vars

\* C5 witness: a release with a count below what is already released.
ReleaseIsClampedMaxWitness ==
  /\ call.op = "release"
  /\ call.arg > 0
  /\ call.arg < stream.releasedCount

\* C6: reset() zeroes releasedCount, installs an empty open output stream and
\* leaves rows and buffered alone.
ResetStartsEmpty ==
  [][call'.op = "reset" =>
       /\ stream'.releasedCount = 0
       /\ stream'.output = newOutput
       /\ stream'.rows = stream.rows
       /\ stream'.buffered = stream.buffered]_vars

\* C6 witness: a reset of a fully buffered stream that holds rows.
ResetStartsEmptyWitness ==
  /\ call.op = "reset"
  /\ stream.buffered
  /\ Len(stream.rows) = 2
  /\ stream.output = newOutput

\* C7: once the inbound stream has ended, buffered becomes true; a read
\* error keeps the rows pushed so far and rejects bufferPromise.
BufferingAlwaysEnds ==
  /\ (source.state \in {"closed", "errored"}) ~> stream.buffered
  /\ [][call'.op = "readError" =>
          /\ stream'.rows = stream.rows
          /\ stream'.buffered
          /\ stream'.bufferPromise = "rejected"]_vars
  /\ []((source.state = "errored" /\ stream.buffered) =>
          stream.bufferPromise = "rejected")

\* C7 witness: the inbound stream failed in the middle of a record after a
\* row was completed.
BufferingAlwaysEndsWitness ==
  /\ source.state = "errored"
  /\ stream.buffered
  /\ stream.bufferPromise = "rejected"
  /\ Len(stream.rows) > 0
  /\ stream.partial # <<>>

\* Reference for C8: the whole content decoded at once, cut at the newlines,
\* blank records left out.
RECURSIVE decodeAll(_)
decodeAll(bs) ==
  IF bs = <<>> THEN <<>>
  ELSE IF Head(bs) < 128 THEN <<Head(bs)>> \o decodeAll(Tail(bs))
  ELSE IF IsLead2(Head(bs)) /\ Len(bs) >= 2 /\ IsCont(bs[2])
    THEN <<(Head(bs) - 192) * 64 + (bs[2] - 128)>> \o decodeAll(Tail(Tail(bs)))
  ELSE <<REPLACEMENT>> \o decodeAll(Tail(bs))

RECURSIVE recordsFrom(_, _)
recordsFrom(cs, start) ==
  LET ends == {j \in start..Len(cs) : cs[j] = NL} \cup {Len(cs) + 1}
      end == CHOOSE j \in ends : \A k \in ends : j <= k
      record == SubSeq(cs, start, end - 1)
      blank == \A i \in 1..Len(record) : record[i] = SP
  IN (IF blank THEN <<>> ELSE <<record>>)
     \o (IF end > Len(cs) THEN <<>> ELSE recordsFrom(cs, end + 1))

\* C8: after a normal end of the inbound stream, rows are the non-blank
\* newline-delimited records of the concatenated content, however it was cut
\* into chunks.
RowsAreRecords ==
  (source.state = "closed" /\ stream.buffered) =>
    stream.rows = recordsFrom(decodeAll(source.received), 1)

\* C8 witness: a chunk boundary fell inside a record or a character, and the
\* content ends in an unterminated record that was flushed as the last row.
RowsAreRecordsWitness ==
  /\ source.state = "closed"
  /\ stream.buffered
  /\ source.cut
  /\ Len(stream.rows) >= 2
  /\ source.received[Len(source.received)] # NL

\* C9: rows only grows by appending, is frozen once buffered, and a
\* buffering step touches neither releasedCount nor the output stream.
RowsAppendOnly ==
  [][/\ IsPrefix(stream.rows, stream'.rows)
     /\ (stream.buffered => stream'.rows = stream.rows)
     /\ (call'.op \in {"read", "readDone", "readError"} =>
           /\ stream'.releasedCount = stream.releasedCount
           /\ stream'.closed = stream.closed
           /\ stream'.output = stream.output)]_vars

\* C9 witness: a row arrived after an earlier row had been released.
RowsAppendOnlyWitness ==
  /\ call.op = "read"
  /\ stream.releasedCount > 0
  /\ Len(stream.rows) > stream.releasedCount

\* C10: stepping forward from cursor 0 to the end of a fully buffered
\* timeline leaves every entry fully released and its output closed.  Stated
\* as claimed; an entry without rows is never released into, so never closed.
SteppedToEndAllClosed ==
  (mode = "stepping" /\ cursor > 0 /\ cursor = getTotalChunks(entries)) =>
    \A i \in 1..Len(entries) :
      rc(i) = rowCount(i) /\ entries[i].stream.output.closed

(* ---------------------- helpers of the claims below ------------------- *)
\* The timeline value a second call starts from, right after a first one.
then(tl) ==
  [tl EXCEPT !.notified = 0, !.heard = <<>>, !.loops = 0, !.diverges = FALSE]

\* The rows of the first n entries, concatenated: the global row order.
RECURSIVE rowsUpTo(_, _)
rowsUpTo(es, n) ==
  IF n = 0 THEN <<>> ELSE rowsUpTo(es, n - 1) \o es[n].stream.rows

\* Global position of the first row of entry i (1-based) of es.
offset(es, i) == Len(rowsUpTo(es, i - 1))

totalRows(es) == Len(rowsUpTo(es, Len(es)))

\* The entry (1-based) whose rows contain global position g, for g < total.
owner(es, g) ==
  CHOOSE i \in 1..Len(es) :
    offset(es, i) <= g /\ g < offset(es, i) + Len(es[i].stream.rows)

\* C11: stepForward at the end changes nothing and notifies nobody; before
\* the end it moves the cursor by one and releases exactly the row under the
\* cursor, leaving every other entry and the entry list as they were.
\* Stated as claimed; after a late row in an earlier entry (C1) the row
\* under the cursor is already released and the step releases nothing.
StepForwardReleasesOne ==
  [][call'.op = "stepForward" =>
       IF cursor >= totalRows(entries)
       THEN entries' = entries /\ cursor' = cursor /\ notified' = 0
       ELSE LET o == owner(entries, cursor)
                local == cursor - offset(entries, o)
                before == entries[o].stream
                after == entries'[o].stream
            IN /\ cursor' = cursor + 1
               /\ Len(entries') = Len(entries)
               /\ \A j \in 1..Len(entries) : j # o => entries'[j] = entries[j]
               /\ after.releasedCount = before.releasedCount + 1
               /\ after.releasedCount = local + 1
               /\ after.output.units =
                    Append(before.output.units, encode(before.rows[local + 1] \o <<NL>>))
               /\ after.rows = before.rows]_vars

\* k calls of stepBackward in a row.
RECURSIVE stepBackwardTimes(_, _)
stepBackwardTimes(tl, k) ==
  IF k = 0 THEN tl ELSE stepBackwardTimes(stepBackward(then(tl)), k - 1)

\* C12: stepBackward at cursor 0 changes nothing; at cursor c > 0 it leaves
\* cursor c - 1, and k calls in a row from c >= k leave c - k.
StepBackwardMovesOne ==
  /\ [][call'.op = "stepBackward" =>
          IF cursor = 0
          THEN entries' = entries /\ cursor' = 0 /\ notified' = 0
          ELSE cursor' = cursor - 1]_vars
  /\ [](\A k \in 0..cursor : stepBackwardTimes(timeline, k).cursor = cursor - k)

\* C12 witness: a stepBackward that landed inside the timeline, with rows
\* left on both sides of the cursor.
StepBackwardMovesOneWitness ==
  /\ call.op = "stepBackward"
  /\ cursor >= 1
  /\ cursor + 1 < totalRows(entries)

\* C13: stepForward then stepBackward restores the cursor and the
\* releasedCount of every entry still present.  Stated for the states where
\* the forward step has a row to release; the backward step re-derives the
\* released counts from the cursor, so after a late row in an earlier entry
\* (C1) they differ from the ones before the forward step.
ForwardBackwardRestores ==
  cursor < totalRows(entries) =>
    LET back == stepBackward(then(stepForward(timeline))) IN
    /\ back.cursor = cursor
    /\ \A i \in 1..Len(back.entries) :
         /\ back.entries[i].stream.releasedCount = rc(i)
         /\ back.entries[i].stream.output.units = entries[i].stream.output.units

\* C14: from cursor c > 0, stepBackward then stepForward returns to c, and a
\* stepBackward from the end keeps totalChunks.
BackwardForwardReturns ==
  cursor > 0 =>
    LET back == stepBackward(timeline)
        again == stepForward(then(back))
    IN /\ back.cursor = cursor - 1
       /\ again.cursor = cursor
       /\ (cursor = totalRows(entries) =>
             /\ totalRows(back.entries) = totalRows(entries)
             /\ again.cursor = totalRows(again.entries))

\* C14 witness: the cursor is at the end and the last entry starts exactly
\* at cursor - 1, behind an entry that holds rows.
BackwardForwardReturnsWitness ==
  /\ Len(entries) = 2
  /\ rowCount(1) > 0
  /\ rowCount(2) = 1
  /\ cursor = totalRows(entries)

\* The targets a caller passes to seekTo: every position, and one beyond
\* each end.
Targets == -1..(totalRows(entries) + 1)

clamp(target, total) ==
  IF target < 0 THEN 0 ELSE IF target > total THEN total ELSE target

noFault(es) == \A i \in 1..Len(es) : ~es[i].stream.output.fault

\* C15: seekTo never throws and leaves the cursor on the target clamped to
\* [0, totalChunks], totalChunks read at the call.
SeekLandsOnClampedTarget ==
  [][call'.op = "seekTo" =>
       /\ cursor' = clamp(call'.arg, totalRows(entries))
       /\ noFault(entries')]_vars

\* C15 witness: a seek beyond the end that stopped on the last row.
SeekLandsOnClampedTargetWitness ==
  /\ call.op = "seekTo"
  /\ notified = 1
  /\ call.arg > totalRows(entries)
  /\ cursor = totalRows(entries)
  /\ cursor >= 2

\* C16: a second seekTo(X) right after seekTo(X) changes nothing and
\* notifies nobody.
SeekTwiceIsSeekOnce ==
  \A x \in Targets :
    LET first == then(seekTo(timeline, x)) IN
    seekTo(first, x) = first

\* C16 witness: the state a seek that truncated or released left, strictly
\* inside the timeline, from which the same seek is a no-op.
SeekTwiceIsSeekOnceWitness ==
  /\ call.op = "seekTo"
  /\ notified = 1
  /\ call.arg = cursor
  /\ 0 < cursor
  /\ cursor < totalRows(entries)
  /\ seekTo(timeline, call.arg) = timeline

\* The entries of es that start at or before global position t.
startingUpTo(es, t) == {i \in 1..Len(es) : offset(es, i) <= t}

\* C17: a backward seek to t keeps, in order, exactly the entries that start
\* at or before t, each reset and replayed to its rows below t, and leaves
\* cursor = t.
BackwardSeekTruncates ==
  \A x \in Targets :
    LET t == clamp(x, totalRows(entries))
        after == seekTo(timeline, x)
        kept == startingUpTo(entries, t)
    IN t < cursor =>
         /\ after.cursor = t
         /\ after.notified = 1
         /\ DOMAIN after.entries = kept
         /\ \A i \in kept :
              LET e == after.entries[i] IN
              /\ e.type = entries[i].type
              /\ e.name = entries[i].name
              /\ e.stream.rows = entries[i].stream.rows
              /\ e.stream.buffered = entries[i].stream.buffered
              /\ e.stream.releasedCount = clamp(t - offset(entries, i), rowCount(i))
              /\ e.stream.output.units =
                   [k \in 1..e.stream.releasedCount |->
                      encode(entries[i].stream.rows[k] \o <<NL>>)]
         /\ totalRows(after.entries) = Len(rowsUpTo(entries, Cardinality(kept)))

\* C17 witness: the cursor is in a second entry that starts at 1: a seek to
\* 1 keeps it, a seek to 0 removes it.
BackwardSeekTruncatesWitness ==
  /\ Len(entries) = 2
  /\ rowCount(1) = 1
  /\ rowCount(2) >= 1
  /\ cursor = 2
  /\ Len(seekTo(timeline, 1).entries) = 2
  /\ Len(seekTo(timeline, 0).entries) = 1

\* What C18 says seekTo(0) leaves.
onlyEntriesAtZero(after) ==
  /\ after.cursor = 0
  /\ DOMAIN after.entries = startingUpTo(entries, 0)
  /\ \A i \in DOMAIN after.entries :
       /\ after.entries[i].stream.rows = entries[i].stream.rows
       /\ after.entries[i].stream.releasedCount = 0
       /\ after.entries[i].stream.output.units = <<>>

\* C18 as claimed: from every cursor, cursor 0 included, seekTo(0) leaves
\* only the entries that start at 0, with nothing released.
SeekToZeroFromAnywhere == onlyEntriesAtZero(seekTo(timeline, 0))

\* C18 as amended: from every cursor > 0 seekTo(0) leaves only the entries
\* that start at 0, with nothing released; at cursor 0 it is a no-op, so the
\* entries that start after 0 stay, and every stream has nothing released.
SeekToZeroFromBeyond ==
  LET after == seekTo(timeline, 0) IN
  IF cursor > 0 THEN onlyEntriesAtZero(after) /\ after.notified = 1
  ELSE /\ after = timeline
       /\ \A i \in 1..Len(entries) :
            rc(i) = 0 /\ entries[i].stream.output.units = <<>>

\* C18 witness: the cursor is past the first entry's rows and a second entry
\* starts after 0.
SeekToZeroFromBeyondWitness ==
  /\ cursor > 0
  /\ Len(entries) = 2
  /\ rowCount(1) > 0
  /\ rc(2) > 0
  /\ Len(seekTo(timeline, 0).entries) = 1

\* C19: canDeleteEntry(i) is true exactly for the valid i with cursor <= the
\* start of entry i, and a refused deleteEntry changes nothing and notifies
\* nobody.
eligible(i) ==
  /\ 0 <= i
  /\ i < Len(entries)
  /\ cursor <= offset(entries, i + 1)

DeleteOnlyWhenEligible ==
  /\ [](\A i \in -1..Len(entries) : canDeleteEntry(timeline, i) <=> eligible(i))
  /\ [][call'.op = "deleteEntry" =>
          /\ call'.ret <=> eligible(call'.arg)
          /\ ~call'.ret =>
               entries' = entries /\ cursor' = cursor /\ notified' = 0]_vars

\* C19 witness: deleteEntry was refused for an existing entry that starts
\* below the cursor, another entry being deletable.
DeleteOnlyWhenEligibleWitness ==
  /\ call.op = "deleteEntry"
  /\ ~call.ret
  /\ call.arg = 0
  /\ Len(entries) = 2
  /\ cursor > 0
  /\ eligible(1)

\* C20: an entry canDeleteEntry accepts has nothing released and nothing
\* enqueued.  Stated as claimed; a late row in an earlier entry (C1) moves
\* the start of an entered entry up to the cursor.
DeletableIsUntouched ==
  \A i \in 1..Len(entries) :
    canDeleteEntry(timeline, i - 1) =>
      rc(i) = 0 /\ entries[i].stream.output.units = <<>>

\* C21: deleteEntry on an eligible entry returns true, removes that entry
\* and no other, keeps the others in order and as they were, leaves the
\* cursor where it was, and the cursor stays within totalChunks.
DeleteRemovesOneEntry ==
  [][call'.op = "deleteEntry" =>
       /\ eligible(call'.arg) => call'.ret
       /\ call'.ret =>
            /\ Len(entries') = Len(entries) - 1
            /\ \A k \in 1..Len(entries') :
                 entries'[k] = entries[IF k <= call'.arg THEN k ELSE k + 1]
            /\ cursor' = cursor
            /\ cursor' <= totalRows(entries')
            /\ notified' = 1]_vars

\* C21 witness: the render entry, first of two, was deleted and the action
\* entry with its row is what is left.
DeleteRemovesOneEntryWitness ==
  /\ call.op = "deleteEntry"
  /\ call.ret
  /\ call.arg = 0
  /\ Len(entries) = 1
  /\ entries[1].type = "action"
  /\ rowCount(1) > 0

\* C22: getSnapshot() called again with no mutating operation in between
\* returns the object it returned before: a call right after a call returns
\* the same object, a call that finds a cached object returns it and keeps
\* it, a call leaves what it returned in the cache, and a row arriving in the
\* background leaves the cache alone.
SnapshotIsCached ==
  [][/\ call'.op = "getSnapshot" /\ call.op = "getSnapshot" => call'.ret = call.ret
     /\ call'.op = "getSnapshot" /\ snapshot # <<>> =>
          call'.ret = snapshot[1] /\ snapshot' = snapshot
     /\ call'.op = "getSnapshot" => snapshot' = <<call'.ret>>
     /\ call'.op = "buffer" => snapshot' = snapshot]_vars

\* C22 witness: getSnapshot() has just returned an object, past the start of
\* the timeline, and a second call returns that object.
SnapshotIsCachedWitness ==
  /\ call.op = "getSnapshot"
  /\ cursor > 0
  /\ snapshot = <<call.ret>>
  /\ getSnapshot(timeline).ret = call.ret
  /\ getSnapshot(timeline).tl.snapshot = snapshot

Mutating ==
  {"setRender", "addAction", "deleteEntry", "stepForward", "stepBackward",
   "seekTo", "skipToEntryEnd", "clear"}

\* How many of the notify() calls listed in h called fn.
timesCalled(h, fn) == Cardinality({k \in DOMAIN h : fn \in h[k].fns})

\* C23: a mutating call that changes entries or cursor calls every
\* subscribed listener exactly once, when the change is complete.
EachListenerOncePerCall ==
  [][call'.op \in Mutating /\ (entries' # entries \/ cursor' # cursor) =>
       \A fn \in listeners :
         /\ timesCalled(heard', fn) = 1
         /\ heard'[Len(heard')].entries = entries'
         /\ heard'[Len(heard')].sees.cursor = cursor']_vars

\* C24: the listeners seekTo calls are called once, when the seek is
\* complete: what getSnapshot() gives them is the final entry list and the
\* clamped target as cursor.
SeekNotifiesAtEnd ==
  \A x \in Targets :
    LET t == clamp(x, totalRows(entries))
        after == seekTo(timeline, x)
    IN /\ Len(after.heard) = IF t = cursor \/ listeners = {} THEN 0 ELSE 1
       /\ \A k \in DOMAIN after.heard :
            /\ after.heard[k].fns = listeners
            /\ after.heard[k].entries = after.entries
            /\ after.heard[k].sees.cursor = t
            /\ after.heard[k].sees.totalChunks = totalRows(after.entries)
            /\ after.heard[k].sees.isAtStart = (t = 0)
            /\ after.heard[k].sees.isAtEnd = (t >= totalRows(after.entries))

\* C24 witness: both listeners subscribed, the cursor at 2 behind an entry
\* that starts at 2: seekTo(1) removes that entry, resets and replays one
\* row, and the listeners see cursor 1.
SeekNotifiesAtEndWitness ==
  /\ listeners = Listeners
  /\ cursor = 2
  /\ Len(entries) = 2
  /\ rowCount(1) = 2
  /\ LET after == seekTo(timeline, 1) IN
     /\ Len(after.entries) = 1
     /\ Len(after.heard) = 1
     /\ after.heard[1].sees.cursor = 1

\* C25: skipToEntryEnd moves the cursor to the end of the entry that owns
\* position cursor, releases that entry fully and touches no other entry;
\* at the end of the timeline it changes nothing.
SkipStopsAtEntryEnd ==
  [][call'.op = "skipToEntryEnd" =>
       IF cursor >= totalRows(entries)
       THEN entries' = entries /\ cursor' = cursor /\ notified' = 0
       ELSE LET o == owner(entries, cursor) IN
            /\ cursor' = offset(entries, o) + rowCount(o)
            /\ Len(entries') = Len(entries)
            /\ entries'[o].stream.releasedCount = rowCount(o)
            /\ entries'[o].stream.rows = entries[o].stream.rows
            /\ \A j \in 1..Len(entries) : j # o => entries'[j] = entries[j]]_vars

\* C25 witness: two or more rows were skipped to the end of the first entry
\* and the second entry, which has a row, has released nothing.
SkipStopsAtEntryEndWitness ==
  /\ call.op = "skipToEntryEnd"
  /\ notified >= 2
  /\ Len(entries) = 2
  /\ cursor = rowCount(1)
  /\ rc(1) = rowCount(1)
  /\ rowCount(2) > 0
  /\ rc(2) = 0

\* The streams a caller can hand to setRender: a new one, or one an entry
\* already holds, in whatever state it is.
givenStreams == {newStream(TRUE)} \cup {entries[i].stream : i \in 1..Len(entries)}

\* C26: from every state setRender(stream) leaves one render entry holding
\* that stream and cursor 0, and clear() leaves no entry and cursor 0.
SetRenderAndClearStartOver ==
  /\ \A given \in givenStreams :
       LET after == setRender(timeline, given) IN
       /\ Len(after.entries) = 1
       /\ after.entries[1].type = "render"
       /\ after.entries[1].stream = given
       /\ after.cursor = 0
  /\ clear(timeline).entries = <<>>
  /\ clear(timeline).cursor = 0

\* C26 witness: two entries with the cursor inside the second, from where
\* setRender and clear go back to cursor 0.
SetRenderAndClearStartOverWitness ==
  /\ Len(entries) = 2
  /\ cursor > rowCount(1)
  /\ rc(2) > 0
  /\ setRender(timeline, entries[2].stream).cursor = 0
  /\ Len(setRender(timeline, entries[2].stream).entries) = 1
  /\ clear(timeline).cursor = 0

\* Entry b is entry a some steps later: same type and name, and a's rows
\* first among b's rows.
carried(a, b) ==
  /\ a.type = b.type
  /\ a.name = b.name
  /\ IsPrefix(a.stream.rows, b.stream.rows)

\* C27: addAction appends one action entry and leaves the cursor and the
\* existing entries as they were; setRender aside, every other step leaves
\* the entries that survive in their order: none is added, and the survivors
\* are the old entries with one taken out (deleteEntry) or a tail cut off.
AddActionAppends ==
  /\ [][call'.op = "addAction" =>
          /\ Len(entries') = Len(entries) + 1
          /\ SubSeq(entries', 1, Len(entries)) = entries
          /\ entries'[Len(entries')].type = "action"
          /\ entries'[Len(entries')].stream = newStream(TRUE)
          /\ cursor' = cursor]_vars
  /\ [][call'.op = "deleteEntry" =>
          \/ entries' = entries
          \/ /\ Len(entries') = Len(entries) - 1
             /\ \E i \in 1..Len(entries) : \A k \in 1..Len(entries') :
                  carried(entries[IF k < i THEN k ELSE k + 1], entries'[k])]_vars
  /\ [][call'.op \notin {"setRender", "addAction", "deleteEntry"} =>
          /\ Len(entries') <= Len(entries)
          /\ \A k \in 1..Len(entries') : carried(entries[k], entries'[k])]_vars

\* C27 witness: an action was appended behind an entry with released rows,
\* the cursor past the start.
AddActionAppendsWitness ==
  /\ call.op = "addAction"
  /\ Len(entries) = 2
  /\ cursor > 0
  /\ rc(1) = cursor
  /\ rowCount(2) = 0

\* C28: stepping while rows arrive; once every stream has finished and
\* stepForward has become a no-op, every row of every entry is released.
\* Stated as claimed; a row that arrives in an entry the cursor has passed
\* (C1) stays unreleased.
LateRowsAreReleased ==
  mode = "live" /\ allBuffered /\ stepForward(timeline) = timeline =>
    \A i \in 1..Len(entries) : rc(i) = rowCount(i)

\* stepForward repeated until it is a no-op.
RECURSIVE stepForwardToEnd(_)
stepForwardToEnd(tl) ==
  IF stepForward(tl) = tl THEN tl ELSE stepForwardToEnd(then(stepForward(tl)))

\* C29: after stepping to the end, a backward seek to any k followed by
\* stepping to the end again gives every remaining entry an output that
\* holds all its rows in order, as at the end of the first pass, and is
\* closed.  Stated as claimed; the output of an entry without rows is
\* never closed (C10).
ReplayRepeatsFirstPass ==
  mode = "stepping" /\ cursor = totalRows(entries) =>
    \A k \in 0..cursor :
      LET again == stepForwardToEnd(then(seekTo(timeline, k))) IN
      \A i \in 1..Len(again.entries) :
        /\ again.entries[i].stream.output.units = entries[i].stream.output.units
        /\ again.entries[i].stream.output.units =
             [n \in 1..rowCount(i) |-> encode(entries[i].stream.rows[n] \o <<NL>>)]
        /\ again.entries[i].stream.output.closed

\* C30: subscribe adds its listener and the function it returns removes
\* that listener and no other; every notify() calls exactly the listeners
\* subscribed at that moment, so a listener is called on every notify()
\* while subscribed and never once it is removed.
ListenersHearEveryNotify ==
  /\ [](/\ \A k \in DOMAIN heard : heard[k].fns = listeners
        /\ Len(heard) = IF listeners = {} THEN 0 ELSE notified)
  /\ [][call'.op = "subscribe" =>
          listeners' = listeners \cup {call'.arg} /\ notified' = 0]_vars
  /\ [][call'.op = "unsubscribe" =>
          listeners' = listeners \ {call'.arg} /\ notified' = 0]_vars
  /\ [][call'.op \notin {"subscribe", "unsubscribe"} =>
          listeners' = listeners]_vars

\* C30 witness: f has just been removed and g is still subscribed: the
\* next stepForward calls g and not f.
ListenersHearEveryNotifyWitness ==
  /\ call.op = "unsubscribe"
  /\ call.arg = "f"
  /\ listeners = {"g"}
  /\ Len(stepForward(timeline).heard) = 1
  /\ stepForward(timeline).heard[1].fns = {"g"}

\* C31: an output stream is closed at most once and nothing is enqueued
\* into it once closed (fault records either); a closed output stays as it
\* is until reset replaces it with a new, open one, and this.closed says
\* whether the current output is closed.
OutputClosedOnce ==
  /\ [](/\ ~stream.output.fault
        /\ stream.closed <=> stream.output.closed)
  /\ [][stream.output.closed /\ call'.op # "reset" =>
          stream'.output = stream.output]_vars
  /\ [][call'.op = "reset" => stream'.output = newOutput]_vars

\* C31 witness: a release on a stream already fully released, buffered and
\* closed, with rows in its output; the same release again and a larger one
\* change nothing, and a reset followed by a full release closes the new
\* output.
OutputClosedOnceWitness ==
  /\ call.op = "release"
  /\ stream.output.closed
  /\ Len(stream.output.units) >= 2
  /\ release(stream, call.arg) = stream
  /\ release(stream, Len(stream.rows) + 1) = stream
  /\ ~reset(stream).output.closed
  /\ release(reset(stream), Len(stream.rows)).output.closed
  /\ ~release(reset(stream), Len(stream.rows)).output.fault

\* Whether the release loop of seekTo, started in tl, leaves through its
\* `break`.
RECURSIVE breaks(_, _)
breaks(tl, clampedTarget) ==
  IF tl.cursor >= clampedTarget THEN FALSE
  ELSE IF ~releaseNext(tl).ret THEN TRUE
  ELSE breaks(releaseNext(tl).tl, clampedTarget)

\* The timeline a backward seekTo replays from.
rewound(tl, clampedTarget) ==
  [tl EXCEPT !.entries = resetAll(SubSeq(@, 1, keepLoop(@, 0, 0, 0, clampedTarget))),
             !.cursor = 0]

\* C32: _releaseNext never fails where the public operations call it:
\* past the guard of stepForward position cursor resolves and the cursor
\* moves by one, and neither loop of seekTo leaves through its break, so
\* the seek ends on its clamped target.
PositionAlwaysFound ==
  /\ cursor < getTotalChunks(entries) =>
       /\ getPosition(entries, cursor) # NoPosition
       /\ releaseNext(timeline).ret
       /\ stepForward(timeline).cursor = cursor + 1
  /\ \A x \in Targets :
       LET t == clamp(x, totalRows(entries)) IN
       /\ ~breaks(IF t < cursor THEN rewound(timeline, t) ELSE timeline, t)
       /\ seekTo(timeline, x).cursor = t

\* C32 witness: the cursor stands before an entry without rows that is
\* followed by an entry with rows; the position resolves into the latter.
PositionAlwaysFoundWitness ==
  /\ Len(entries) = 2
  /\ rowCount(1) = 0
  /\ rowCount(2) >= 2
  /\ cursor = 0
  /\ getPosition(entries, cursor) = [entryIndex |-> 1, localChunk |-> 0]
  /\ seekTo(timeline, 2).cursor = 2

\* C33: a snapshot object agrees with the timeline: the cached one in every
\* state, and so the one getSnapshot() returns, has the cursor, refers to
\* the array this.entries refers to and has isAtStart = (cursor = 0); and a
\* step that changes the cursor or installs another array leaves no cached
\* object.
SnapshotMatchesTimeline ==
  /\ [](snapshot # <<>> =>
          /\ snapshot[1].cursor = cursor
          /\ snapshot[1].entries = array
          /\ snapshot[1].isAtStart = (cursor = 0))
  /\ [][call'.op = "getSnapshot" =>
          /\ call'.ret.cursor = cursor'
          /\ call'.ret.entries = array'
          /\ call'.ret.isAtStart = (cursor' = 0)]_vars
  /\ [][cursor' # cursor \/ array' # array => snapshot' = <<>>]_vars

\* C33 witness: getSnapshot() has returned an object made after an earlier
\* one was dropped by an operation that installed another array and moved
\* the cursor.
SnapshotMatchesTimelineWitness ==
  /\ call.op = "getSnapshot"
  /\ snapshot = <<call.ret>>
  /\ array = 1
  /\ cursor > 0
  /\ call.ret.entries = 1
  /\ call.ret.cursor = cursor

\* C34: the object getSnapshot() returns has totalChunks = getTotalChunks()
\* and isAtEnd = (cursor >= getTotalChunks()) as they are at the call.
\* Stated as claimed; a row that arrives in the background leaves the cached
\* object in place.
SnapshotTotalIsCurrent ==
  call.op = "getSnapshot" =>
    /\ call.ret.totalChunks = getTotalChunks(entries)
    /\ call.ret.isAtEnd = (cursor >= getTotalChunks(entries))

\* C35: seekTo and skipToEntryEnd end: from every state their loops make at
\* most totalChunks passes, and skipToEntryEnd never reaches a pass in which
\* stepForward does nothing while the cursor is below the entry end.
CallsTerminate ==
  /\ \A x \in Targets :
       LET after == seekTo(timeline, x) IN
       /\ ~after.diverges
       /\ after.loops <= totalRows(entries)
  /\ LET after == skipToEntryEnd(timeline) IN
     /\ ~after.diverges
     /\ after.loops <= totalRows(entries)
     /\ after.loops = after.cursor - cursor

\* C35 witness: three rows in two entries and the cursor at 0: seekTo(3)
\* makes three passes, skipToEntryEnd as many as the first entry has rows,
\* and a seek back from the end replays two.
CallsTerminateWitness ==
  /\ Len(entries) = 2
  /\ rowCount(1) = 2
  /\ rowCount(2) = 1
  /\ cursor = 0
  /\ seekTo(timeline, 3).loops = 3
  /\ skipToEntryEnd(timeline).loops = 2
  /\ seekTo(then(seekTo(timeline, 3)), 2).loops = 2

\* C36: a session is installed only by the creation started for the current
\* serverCode, clientCode and resetKey: when a then-callback has set the
\* session, its run is the latest, that run's dependencies are the
\* component's, and every earlier run's signal is aborted.
\* Stated as claimed; the effect's cleanup runs some time after the change,
\* and a creation that resolves in between is installed.
OnlyLatestCreationInstalled ==
  call.op = "created" /\ call.ret =>
    /\ call.arg = Len(workspace.runs)
    /\ deps(workspace.runs[call.arg]) = deps(workspace)
    /\ \A i \in 1..(call.arg - 1) : workspace.runs[i].aborted

====
